---- MODULE Spec2Model ----
(***************************************************************************)
(* Crop-Analysis-Visualization: the seasonal LNC threshold model of        *)
(* shared/config.py, the band classification drawn by visualization 5 and  *)
(* the peak detection loops of visualization 6.                            *)
(*                                                                         *)
(* Numbers.  The reference thresholds carry two decimals and the monthly   *)
(* factors three, so a threshold is held as an integer number of 1/100,    *)
(* a factor as an integer number of 1/1000 and every product and every     *)
(* measured concentration as an integer number of 1/100000.  The products  *)
(* are therefore the exact decimal products; the code's IEEE doubles are   *)
(* within one unit in the last place of them (2.88 * 1.125 evaluates to    *)
(* 3.2399999999999998), which this model does not represent.               *)
(***************************************************************************)
EXTENDS Integers, Sequences, FiniteSets, TLC

VARIABLES
    date,          \* visualization 5: the date of the observation
    n_value,       \* visualization 5: its N_Value, in 1/100000 %
    thr,           \* visualization 5: the thresholds looked up so far, by key
    label,         \* visualization 5: the band the observation lies in
    cpc,           \* visualization 5: position of the classification pass
    dateA,         \* first caller of the threshold model: its date
    dateB,         \* second caller of the threshold model: its date
    thrA,          \* first caller: the four thresholds it was given
    thrB,          \* second caller: the four thresholds it was given
    monthly,       \* the table returned by get_monthly_thresholds()
    ratio_values,  \* visualization 6: monthly_avg['N_ST_Ratio'].values
    i,             \* visualization 6: the loop variable of the peak loop
    peak_dates,    \* visualization 6: positions i whose dates[i] were appended
    peak_values,   \* visualization 6: the values appended with them
    ppc,           \* visualization 6: position of the peak loop
    csv,           \* the rows of the data set file
    df,            \* the table load_npk_data returned to the report
    monthly_data,  \* visualization 4: the table of monthly starch means
    report,        \* which report function has run on df ("none": not yet)
    sample_ratio,  \* visualization 3: the column df['N_ST_Ratio']
    monthly_avg,   \* visualization 6: the table get_monthly_averages returned
    traces,        \* visualizations 4 and 5: the traces added to the figure
    series,        \* normalize: the series passed in
    normalized,    \* normalize: the series returned
    npc,           \* normalize: position
    oct_thresholds, \* config: the table LNC_OCT_THRESHOLDS of the deployment
    monthly_factors, \* config: its table LNC_MONTHLY_FACTORS
    lookup,        \* the last call of get_threshold_for_date and how it ended
    thresholds,    \* what the caller holds of get_monthly_thresholds()
    caller_pc,     \* two callers sharing df: where each is in its report
    caller_out,    \* what each caller's report computed
    writing,       \* the callers inside an assignment to a column of df
    charts,        \* visualization 6: the peak charts drawn of one ratio series
    raw_peaks,     \* positions marked by create_triple_axis_chart
    norm_peaks     \* positions marked by create_peak_annotated_chart

vars == <<date, n_value, thr, label, cpc, dateA, dateB, thrA, thrB, monthly,
          ratio_values, i, peak_dates, peak_values, ppc,
          csv, df, report, sample_ratio, monthly_avg, monthly_data, traces,
          series, normalized, npc,
          oct_thresholds, monthly_factors, lookup, thresholds,
          caller_pc, caller_out, writing,
          charts, raw_peaks, norm_peaks>>

classifyVars == <<date, n_value, thr, label, cpc>>
lookupVars == <<dateA, dateB, thrA, thrB, monthly>>
peakVars == <<ratio_values, i, peak_dates, peak_values, ppc>>
reportVars == <<csv, df, report, sample_ratio, monthly_avg, monthly_data, traces>>
normVars == <<series, normalized, npc>>
configVars == <<oct_thresholds, monthly_factors, lookup, thresholds>>
parallelVars == <<caller_pc, caller_out, writing>>
chartVars == <<charts, raw_peaks, norm_peaks>>

----------------------------------------------------------------------------
(* Bounds of the model *)

MaxYearOffset == 1
MaxDay == 2
MaxLen == 4
MaxVal == 2
MaxRows == 2

----------------------------------------------------------------------------
(* shared/config.py *)

\* two values entered under each other's key
LNC_OCT_THRESHOLDS_Swapped ==
    [deficient_low |-> 264, low_optimum |-> 324,
     optimum_high |-> 288, high_excess |-> 348]

\* 2.64, 2.88, 3.24, 3.48 in 1/100
LNC_OCT_THRESHOLDS ==
    [deficient_low |-> 264, low_optimum |-> 288,
     optimum_high |-> 324, high_excess |-> 348]

\* the factor of month m is LNC_MONTHLY_FACTORS[m], in 1/1000
LNC_MONTHLY_FACTORS ==
    <<1125, 1081, 1024, 993, 910, 923, 973, 1024, 1024, 1000, 1088, 1125>>

\* the keys in the order the chart asks for them (t1_values .. t4_values)
ThresholdKeys == <<"deficient_low", "low_optimum", "optimum_high", "high_excess">>

KeySet == {ThresholdKeys[n] : n \in 1..Len(ThresholdKeys)}

Months == 1..12

\* October, whose factor is 1.000
AnchorMonth == 10

FirstYear == 2022

Years == FirstYear..(FirstYear + MaxYearOffset)

Days == 1..MaxDay

Dates == [year : Years, month : Months, day : Days]

\* a wrong attribute of the date selects the factor
get_threshold_for_date_UsesDay(d, threshold_key) ==
    LET month == d.day
        factor == LNC_MONTHLY_FACTORS[month]
    IN  LNC_OCT_THRESHOLDS[threshold_key] * factor

\* the factor table is indexed from 0: month m gets the factor of month m-1
get_threshold_for_date_OffByOne(d, threshold_key) ==
    LET month == ((d.month + 10) % 12) + 1
        factor == LNC_MONTHLY_FACTORS[month]
    IN  LNC_OCT_THRESHOLDS[threshold_key] * factor

get_threshold_for_date(d, threshold_key) ==
    LET month == d.month
        factor == LNC_MONTHLY_FACTORS[month]
    IN  LNC_OCT_THRESHOLDS[threshold_key] * factor

\* one entry was written with the factor of January instead of the loop's
get_monthly_thresholds_MixedFactor ==
    [month \in Months |->
        LET factor == LNC_MONTHLY_FACTORS[month]
        IN  [deficient_low |-> LNC_OCT_THRESHOLDS["deficient_low"] * factor,
             low_optimum   |-> LNC_OCT_THRESHOLDS["low_optimum"] * LNC_MONTHLY_FACTORS[1],
             optimum_high  |-> LNC_OCT_THRESHOLDS["optimum_high"] * factor,
             high_excess   |-> LNC_OCT_THRESHOLDS["high_excess"] * factor]]

get_monthly_thresholds ==
    [month \in Months |->
        LET factor == LNC_MONTHLY_FACTORS[month]
        IN  [deficient_low |-> LNC_OCT_THRESHOLDS["deficient_low"] * factor,
             low_optimum   |-> LNC_OCT_THRESHOLDS["low_optimum"] * factor,
             optimum_high  |-> LNC_OCT_THRESHOLDS["optimum_high"] * factor,
             high_excess   |-> LNC_OCT_THRESHOLDS["high_excess"] * factor]]

----------------------------------------------------------------------------
(* visualization 5: the bands and the observations drawn over them.        *)
(* The repository has no classifier function.  The band an observation     *)
(* lies in is fixed by the comments of LNC_OCT_THRESHOLDS ("Below =        *)
(* Deficient", "Below = Low", "Below = Optimum", "Below = High, Above =    *)
(* Excess") read from the lowest key upwards, which is also the order in   *)
(* which the chart stacks the bands between the threshold curves.          *)

Labels == {"Deficient", "Low", "Optimum", "High", "Excess"}

\* "below or equal" read for "below": a boundary value falls in the band under it
classify_Inclusive(value, t) ==
    IF value <= t["deficient_low"] THEN "Deficient"
    ELSE IF value <= t["low_optimum"] THEN "Low"
    ELSE IF value <= t["optimum_high"] THEN "Optimum"
    ELSE IF value <= t["high_excess"] THEN "High"
    ELSE "Excess"

\* the labels were written on the wrong keys: "Below = Optimum" on the
\* second and "Below = Low" on the third
classify_LabelsSwapped(value, t) ==
    IF value < t["deficient_low"] THEN "Deficient"
    ELSE IF value < t["low_optimum"] THEN "Optimum"
    ELSE IF value < t["optimum_high"] THEN "Low"
    ELSE IF value < t["high_excess"] THEN "High"
    ELSE "Excess"

\* a missing value (NaN, held as -1) is neither below nor above a threshold:
\* no comment of the table applies to it and the chart draws no point for it
classify(value, t) ==
    IF value = -1 THEN ""
    ELSE IF value < t["deficient_low"] THEN "Deficient"
    ELSE IF value < t["low_optimum"] THEN "Low"
    ELSE IF value < t["optimum_high"] THEN "Optimum"
    ELSE IF value < t["high_excess"] THEN "High"
    ELSE "Excess"

\* t1_values .. t4_values for one date of monthly_dates
t_values(d) == [k \in KeySet |-> get_threshold_for_date(d, k)]

EmptyThr == [k \in {} |-> 0]

NoDate == [year |-> 0, month |-> 0, day |-> 0]

\* the factor 1.000 in the unit of the factors: a reference value of r/100
\* is r * FactorUnit in the unit of the products
FactorUnit == 1000

\* the concentrations tried: every seasonal threshold, its two neighbours,
\* the three observations of the worked scenario, zero and the chart's ceiling
AllThresholds ==
    {LNC_OCT_THRESHOLDS[k] * LNC_MONTHLY_FACTORS[m] : k \in KeySet, m \in Months}

CandidateValues ==
    AllThresholds
    \cup {t - 1 : t \in AllThresholds}
    \cup {t + 1 : t \in AllThresholds}
    \cup {0, 270000, 300000, 350000, 420000}

ClassifyIdle ==
    /\ date = NoDate
    /\ n_value = 0
    /\ thr = EmptyThr
    /\ label = ""
    /\ cpc = "idle"

LookupIdle ==
    /\ dateA = NoDate
    /\ dateB = NoDate
    /\ thrA = EmptyThr
    /\ thrB = EmptyThr
    /\ monthly = <<>>

PeakIdle ==
    /\ ratio_values = <<>>
    /\ i = 0
    /\ peak_dates = <<>>
    /\ peak_values = <<>>
    /\ ppc = "idle"

ReportIdle ==
    /\ csv = <<>>
    /\ df = <<>>
    /\ monthly_data = <<>>
    /\ report = "idle"
    /\ sample_ratio = <<>>
    /\ monthly_avg = <<>>
    /\ traces = <<>>

NormalizeIdle ==
    /\ series = <<>>
    /\ normalized = <<>>
    /\ npc = "idle"

ConfigIdle ==
    /\ oct_thresholds = <<>>
    /\ monthly_factors = <<>>
    /\ lookup = <<>>
    /\ thresholds = <<>>

ParallelIdle ==
    /\ caller_pc = <<>>
    /\ caller_out = <<>>
    /\ writing = {}

ChartIdle ==
    /\ charts = {}
    /\ raw_peaks = <<>>
    /\ norm_peaks = <<>>

InitClassify ==
    /\ date \in Dates
    /\ n_value \in CandidateValues
    /\ thr = EmptyThr
    /\ label = ""
    /\ cpc = "thresholds"
    /\ LookupIdle
    /\ PeakIdle
    /\ ReportIdle
    /\ NormalizeIdle
    /\ ConfigIdle
    /\ ParallelIdle
    /\ ChartIdle

\* concentrations no leaf can have: a missing value and negative ones (-0.5 %
\* and -1 %), next to an ordinary one
InvalidValues == {-1, -50000, -100000}

InitClassifyInvalid ==
    /\ date \in Dates
    /\ n_value \in InvalidValues \cup {300000}
    /\ thr = EmptyThr
    /\ label = ""
    /\ cpc = "thresholds"
    /\ LookupIdle
    /\ PeakIdle
    /\ ReportIdle
    /\ NormalizeIdle
    /\ ConfigIdle
    /\ ParallelIdle
    /\ ChartIdle

\* the next of t1_values .. t4_values
ComputeThreshold ==
    /\ cpc = "thresholds"
    /\ LET k == ThresholdKeys[Cardinality(DOMAIN thr) + 1]
       IN  /\ thr' = thr @@ (k :> get_threshold_for_date(date, k))
           /\ cpc' = IF Cardinality(DOMAIN thr) + 1 = Len(ThresholdKeys)
                     THEN "classify" ELSE "thresholds"
    /\ UNCHANGED <<date, n_value, label>>
    /\ UNCHANGED <<lookupVars, peakVars, reportVars, normVars, configVars, parallelVars, chartVars>>

\* the observation is placed among the bands
Classify ==
    /\ cpc = "classify"
    /\ label' = classify(n_value, thr)
    /\ cpc' = "done"
    /\ UNCHANGED <<date, n_value, thr>>
    /\ UNCHANGED <<lookupVars, peakVars, reportVars, normVars, configVars, parallelVars, chartVars>>

NextClassify == ComputeThreshold \/ Classify

SpecClassify == InitClassify /\ [][NextClassify]_vars

\* the same pass on values that are missing or negative
SpecClassifyInvalid == InitClassifyInvalid /\ [][NextClassify]_vars

----------------------------------------------------------------------------
(* Two callers of the threshold model, and the monthly table *)

InitLookup ==
    /\ dateA \in Dates
    /\ dateB \in Dates
    /\ thrA = EmptyThr
    /\ thrB = EmptyThr
    /\ monthly = <<>>
    /\ ClassifyIdle
    /\ PeakIdle
    /\ ReportIdle
    /\ NormalizeIdle
    /\ ConfigIdle
    /\ ParallelIdle
    /\ ChartIdle

LookupA ==
    /\ thrA = EmptyThr
    /\ thrA' = t_values(dateA)
    /\ UNCHANGED <<dateA, dateB, thrB, monthly>>
    /\ UNCHANGED <<classifyVars, peakVars, reportVars, normVars, configVars, parallelVars, chartVars>>

LookupB ==
    /\ thrB = EmptyThr
    /\ thrB' = t_values(dateB)
    /\ UNCHANGED <<dateA, dateB, thrA, monthly>>
    /\ UNCHANGED <<classifyVars, peakVars, reportVars, normVars, configVars, parallelVars, chartVars>>

GetMonthlyThresholds ==
    /\ monthly = <<>>
    /\ monthly' = get_monthly_thresholds
    /\ UNCHANGED <<dateA, dateB, thrA, thrB>>
    /\ UNCHANGED <<classifyVars, peakVars, reportVars, normVars, configVars, parallelVars, chartVars>>

NextLookup == LookupA \/ LookupB \/ GetMonthlyThresholds

SpecLookup == InitLookup /\ [][NextLookup]_vars

----------------------------------------------------------------------------
(* visualization 6: the peak loop of create_ratio_focused_chart.  The      *)
(* loops of create_triple_axis_chart and create_peak_annotated_chart have  *)
(* the same range and the same test.                                       *)

\* the ratio of a bucket whose means are 0/0 or missing: every comparison
\* with it is false
NaN == -1

Ratios == 0..MaxVal \cup {NaN}

RECURSIVE SeqsUpTo(_, _)
SeqsUpTo(S, n) ==
    IF n = 0 THEN {<<>>}
    ELSE LET shorter == SeqsUpTo(S, n - 1)
         IN  shorter \cup {Append(s, x) : s \in {t \in shorter : Len(t) = n - 1}, x \in S}

\* the two series the documentation works through
ExampleSeries == {<<1, 3, 5, 7, 4, 2>>, <<9, 1, 2, 3>>}

Series == SeqsUpTo(Ratios, MaxLen) \cup ExampleSeries

\* a > b on floats
Gt(a, b) == a # NaN /\ b # NaN /\ a > b

\* a >= b on floats
Ge(a, b) == a # NaN /\ b # NaN /\ a >= b

\* a[j] on a numpy array of length Len(a): a negative j counts from the end
InBounds(a, j) == -Len(a) <= j /\ j < Len(a)

ArrayGet(a, j) == IF j >= 0 THEN a[j + 1] ELSE a[Len(a) + j + 1]

\* range(0, len - 1): the first element is taken for an interior one
PeakRange_FromZero(n) == [start |-> 0, stop |-> n - 1]

\* range(1, len): the last element is taken for an interior one
PeakRange_ToEnd(n) == [start |-> 1, stop |-> n]

\* range(1, len(ratio_values) - 1)
PeakRange(n) == [start |-> 1, stop |-> n - 1]

\* < for >: the loop marks the low points
IsPeak_Mirrored(a, j) == Gt(ArrayGet(a, j - 1), ArrayGet(a, j)) /\ Gt(ArrayGet(a, j + 1), ArrayGet(a, j))

\* >= for >: a plateau is taken for a peak
IsPeak_NonStrict(a, j) == Ge(ArrayGet(a, j), ArrayGet(a, j - 1)) /\ Ge(ArrayGet(a, j), ArrayGet(a, j + 1))

\* ratio_values[i] > ratio_values[i-1] and ratio_values[i] > ratio_values[i+1]
IsPeak(a, j) == Gt(ArrayGet(a, j), ArrayGet(a, j - 1)) /\ Gt(ArrayGet(a, j), ArrayGet(a, j + 1))

\* the test reads a[j-1] and, when the first comparison is true, a[j+1]
TestInBounds(a, j) ==
    /\ InBounds(a, j)
    /\ InBounds(a, j - 1)
    /\ (Gt(ArrayGet(a, j), ArrayGet(a, j - 1)) => InBounds(a, j + 1))

InitPeaks ==
    /\ ratio_values \in Series
    /\ i = PeakRange(Len(ratio_values)).start
    /\ peak_dates = <<>>
    /\ peak_values = <<>>
    /\ ppc = "loop"
    /\ ClassifyIdle
    /\ LookupIdle
    /\ ReportIdle
    /\ NormalizeIdle
    /\ ConfigIdle
    /\ ParallelIdle
    /\ ChartIdle

\* one iteration of the loop
PeakLoopBody ==
    /\ ppc = "loop"
    /\ i < PeakRange(Len(ratio_values)).stop
    /\ IF ~TestInBounds(ratio_values, i)
       THEN /\ ppc' = "IndexError"
            /\ UNCHANGED <<i, peak_dates, peak_values>>
       ELSE /\ IF IsPeak(ratio_values, i)
               THEN /\ peak_dates' = Append(peak_dates, i)
                    /\ peak_values' = Append(peak_values, ArrayGet(ratio_values, i))
               ELSE UNCHANGED <<peak_dates, peak_values>>
            /\ i' = i + 1
            /\ ppc' = "loop"
    /\ UNCHANGED ratio_values
    /\ UNCHANGED <<classifyVars, lookupVars, reportVars, normVars, configVars, parallelVars, chartVars>>

\* the range is exhausted
PeakLoopExit ==
    /\ ppc = "loop"
    /\ i >= PeakRange(Len(ratio_values)).stop
    /\ ppc' = "done"
    /\ UNCHANGED <<ratio_values, i, peak_dates, peak_values>>
    /\ UNCHANGED <<classifyVars, lookupVars, reportVars, normVars, configVars, parallelVars, chartVars>>

\* what the chart shows of the loop's result: one marker of the trace
\* 'Ratio Peaks' per appended position; no other kind of marker is built
Events ==
    {[index |-> peak_dates[n], value |-> peak_values[n], kind |-> "Peak"] :
        n \in 1..Len(peak_dates)}

ReportedAs(kind) == {e.index : e \in {x \in Events : x.kind = kind}}

NextPeaks == PeakLoopBody \/ PeakLoopExit

SpecPeaks == InitPeaks /\ [][NextPeaks]_vars

----------------------------------------------------------------------------
(* Floating-point values of the sample table and of what is computed from  *)
(* it.  A cell of the table is a small non-negative integer or NaN         *)
(* (missing).  A computed value is an exact fraction num/den in lowest     *)
(* terms with den > 0, or a division's special result: 1/0 is inf and 0/0  *)
(* is NaN.  Rounding of the doubles is not represented.                    *)

RECURSIVE GCD(_, _)
GCD(a, b) == IF b = 0 THEN a ELSE GCD(b, a % b)

Frac(n, d) == LET g == GCD(n, d) IN [num |-> n \div g, den |-> d \div g]

NaNF == [num |-> 0, den |-> 0]

InfF == [num |-> 1, den |-> 0]

IsFinite(x) == x.den > 0

\* x > y on floats
FGt(x, y) ==
    /\ x # NaNF
    /\ y # NaNF
    /\ IF x = InfF THEN y # InfF
       ELSE IF y = InfF THEN FALSE
       ELSE x.num * y.den > y.num * x.den

\* x / y on floats without a guard: a zero divisor gives inf, or NaN for 0/0
FDiv(x, y) ==
    IF x = NaNF \/ y = NaNF THEN NaNF
    ELSE IF y = InfF THEN (IF x = InfF THEN NaNF ELSE Frac(0, 1))
    ELSE IF y.num = 0 THEN (IF x.num = 0 THEN NaNF ELSE InfF)
    ELSE IF x = InfF THEN InfF
    ELSE Frac(x.num * y.den, x.den * y.num)

\* a cell as a float
Cell(v) == IF v = NaN THEN NaNF ELSE Frac(v, 1)

RECURSIVE SumSeq(_)
SumSeq(q) == IF q = <<>> THEN 0 ELSE Head(q) + SumSeq(Tail(q))

IsPresent(v) == v # NaN

\* every cell counts, a missing one as 0
mean_ZeroFill(cells) ==
    IF cells = <<>> THEN NaNF ELSE Frac(SumSeq(SelectSeq(cells, IsPresent)), Len(cells))

\* Series.mean(): the mean of the cells present, NaN when none is
mean(cells) ==
    LET present == SelectSeq(cells, IsPresent)
    IN  IF present = <<>> THEN NaNF ELSE Frac(SumSeq(present), Len(present))

----------------------------------------------------------------------------
(* The sample table *)

TREATMENT_ORDER == <<"N10", "N40", "N60", "N100", "N150">>

\* the treatments of the rows tried: their canonical order (N40 before N100)
\* differs from the order of their names as strings (N100 before N40)
SampleTreatments == {"N40", "N100"}

\* two days of one month, the same month a year earlier (before the cycle
\* visualization 6 keeps), and an earlier month of the later year
SampleDates ==
    {[year |-> 2024, month |-> 2, day |-> 5], [year |-> 2024, month |-> 2, day |-> 20],
     [year |-> 2023, month |-> 2, day |-> 5], [year |-> 2024, month |-> 1, day |-> 5]}

\* (N_Value, ST_Value) of the rows tried
SampleCells == {<<2, 50>>, <<4, 200>>, <<2, 0>>, <<4, NaN>>, <<NaN, 50>>}

SampleRows ==
    {[treatment |-> t, parsed_date |-> d, N_Value |-> c[1], ST_Value |-> c[2]] :
        t \in SampleTreatments, d \in SampleDates, c \in SampleCells}

Tables == SeqsUpTo(SampleRows, MaxRows)

\* d.replace(day=15)
MidMonth == 15

normalized_date(d) == [d EXCEPT !.day = MidMonth]

\* a < b on timestamps
DateLess(a, b) ==
    \/ a.year < b.year
    \/ a.year = b.year /\ a.month < b.month
    \/ a.year = b.year /\ a.month = b.month /\ a.day < b.day

\* the elements of a set of timestamps, ascending
RECURSIVE SortDates(_)
SortDates(S) ==
    IF S = {} THEN <<>>
    ELSE LET least == CHOOSE d \in S : \A e \in S : ~DateLess(e, d)
         IN  <<least>> \o SortDates(S \ {least})

\* the distinct timestamps of a sequence, in the order of first appearance
RECURSIVE FirstAppearance(_)
FirstAppearance(q) ==
    IF q = <<>> THEN <<>>
    ELSE LET rest == FirstAppearance(SubSeq(q, 1, Len(q) - 1))
             last == q[Len(q)]
         IN  IF \E n \in 1..Len(rest) : rest[n] = last THEN rest ELSE Append(rest, last)

Column(rows, name) == [n \in 1..Len(rows) |-> rows[n][name]]

\* df_copy['normalized_date'] = df_copy['parsed_date'].apply(...)
with_normalized_date(rows) ==
    [n \in 1..Len(rows) |->
        [treatment |-> rows[n].treatment, parsed_date |-> rows[n].parsed_date,
         N_Value |-> rows[n].N_Value, ST_Value |-> rows[n].ST_Value,
         normalized_date |-> normalized_date(rows[n].parsed_date)]]

\* one row of groupby('normalized_date').agg({'N_Value': 'mean', 'ST_Value': 'mean'})
GroupRow(rows, key) ==
    LET InGroup(r) == r.normalized_date = key
        group == SelectSeq(rows, InGroup)
    IN  [normalized_date |-> key,
         N_Value |-> mean(Column(group, "N_Value")),
         ST_Value |-> mean(Column(group, "ST_Value"))]

\* groupby(...).agg(...).reset_index(): one row per key present, keys ascending
groupby_agg(rows) ==
    LET keys == SortDates({rows[n].normalized_date : n \in 1..Len(rows)})
    IN  [n \in 1..Len(keys) |-> GroupRow(rows, keys[n])]

\* sort_values('normalized_date') on rows whose timestamps differ
RECURSIVE sort_values(_)
sort_values(rows) ==
    IF rows = <<>> THEN <<>>
    ELSE LET n == CHOOSE m \in 1..Len(rows) :
                     \A k \in 1..Len(rows) : ~DateLess(rows[k].normalized_date, rows[m].normalized_date)
             Others(r) == r # rows[n]
         IN  <<rows[n]>> \o sort_values(SelectSeq(rows, Others))

with_ratio(rows) ==
    [n \in 1..Len(rows) |->
        [normalized_date |-> rows[n].normalized_date,
         N_Value |-> rows[n].N_Value, ST_Value |-> rows[n].ST_Value,
         N_ST_Ratio |-> FDiv(rows[n].N_Value, rows[n].ST_Value)]]

\* the groups are left in the order their months first appear in df
get_monthly_averages_Unsorted(d) ==
    LET df_copy == with_normalized_date(d)
        keys == FirstAppearance(Column(df_copy, "normalized_date"))
    IN  with_ratio([n \in 1..Len(keys) |-> GroupRow(df_copy, keys[n])])

\* the mean of the rows' own ratios is taken for the ratio of the means
get_monthly_averages_MeanOfRatios(d) ==
    LET df_copy == with_normalized_date(d)
        sorted == sort_values(groupby_agg(df_copy))
        RowRatios(key) ==
            LET InGroup(r) == r.normalized_date = key
                group == SelectSeq(df_copy, InGroup)
                Usable(r) == r.N_Value # NaN /\ r.ST_Value # NaN /\ r.ST_Value # 0
                usable == SelectSeq(group, Usable)
            IN  IF usable = <<>> THEN NaNF
                ELSE IF Len(usable) = 1 THEN Frac(usable[1].N_Value, usable[1].ST_Value)
                ELSE Frac(usable[1].N_Value * usable[2].ST_Value + usable[2].N_Value * usable[1].ST_Value,
                          2 * usable[1].ST_Value * usable[2].ST_Value)
    IN  [n \in 1..Len(sorted) |->
            [normalized_date |-> sorted[n].normalized_date,
             N_Value |-> sorted[n].N_Value, ST_Value |-> sorted[n].ST_Value,
             N_ST_Ratio |-> RowRatios(sorted[n].normalized_date)]]

get_monthly_averages(d) ==
    LET df_copy == with_normalized_date(d)
        sorted == sort_values(groupby_agg(df_copy))
    IN  with_ratio(sorted)

\* the division without .replace(0, np.nan)
row_ratio_Unguarded(r) == FDiv(Cell(r.N_Value), Cell(r.ST_Value))

\* visualization 3: df['N_Value'] / df['ST_Value'].replace(0, np.nan), one row
row_ratio(r) ==
    FDiv(Cell(r.N_Value), Cell(IF r.ST_Value = 0 THEN NaN ELSE r.ST_Value))

\* df[(df['parsed_date'] >= start_date) & (df['parsed_date'] <= end_date)]
between(rows, start_date, end_date) ==
    LET InRange(r) == ~DateLess(r.parsed_date, start_date) /\ ~DateLess(end_date, r.parsed_date)
    IN  SelectSeq(rows, InRange)

\* visualization 5, load_npk_data: Aug 2022 - Aug 2024
load_lnc(rows) ==
    between(rows, [year |-> 2022, month |-> 8, day |-> 1], [year |-> 2024, month |-> 8, day |-> 31])

\* visualization 6, load_npk_data: Sep 2023 - Aug 2024
load_nst(rows) ==
    between(rows, [year |-> 2023, month |-> 9, day |-> 1], [year |-> 2024, month |-> 8, day |-> 31])

\* the treatments of TREATMENT_ORDER that have rows, in that order
treatments_with_rows(rows) ==
    LET HasRows(t) == \E n \in 1..Len(rows) : rows[n].treatment = t
    IN  SelectSeq(TREATMENT_ORDER, HasRows)

\* the rows are grouped by their own day, not by the day-15 timestamp
lnc_trace_ByDay(d, treatment) ==
    LET OfTreatment(r) == r.treatment = treatment
        trt_df == SelectSeq(d, OfTreatment)
        keys == SortDates({trt_df[n].parsed_date : n \in 1..Len(trt_df)})
        Mean(key) == LET InGroup(r) == r.parsed_date = key
                     IN  mean(Column(SelectSeq(trt_df, InGroup), "N_Value"))
    IN  [name |-> treatment,
         x |-> [n \in 1..Len(keys) |-> normalized_date(keys[n])],
         y |-> [n \in 1..Len(keys) |-> Mean(keys[n])]]

\* visualization 5, one pass of the loop over TREATMENT_ORDER: the trace of
\* the monthly nitrogen means of one treatment
lnc_trace(d, treatment) ==
    LET OfTreatment(r) == r.treatment = treatment
        trt_df == with_normalized_date(SelectSeq(d, OfTreatment))
        sorted == sort_values(groupby_agg(trt_df))
    IN  [name |-> treatment,
         x |-> Column(sorted, "normalized_date"),
         y |-> Column(sorted, "N_Value")]

\* the traces follow the order in which the treatments first appear in df
lnc_traces_InsertionOrder(d) ==
    LET seen == FirstAppearance(Column(d, "treatment"))
    IN  [n \in 1..Len(seen) |-> lnc_trace(d, seen[n])]

\* visualization 5: the treatment traces create_lnc_classification_chart adds
lnc_traces(d) ==
    LET present == treatments_with_rows(d)
    IN  [n \in 1..Len(present) |-> lnc_trace(d, present[n])]

\* the treatment names in the order of Python strings, as groupby sorts them
TreatmentNamesSorted == <<"N10", "N100", "N150", "N40", "N60">>

NameRank(t) == CHOOSE n \in 1..Len(TreatmentNamesSorted) : TreatmentNamesSorted[n] = t

\* (year, month, treatment) keys: a < b as groupby orders them
GroupKeyLess(a, b) ==
    \/ a.year < b.year
    \/ a.year = b.year /\ a.month < b.month
    \/ a.year = b.year /\ a.month = b.month /\ NameRank(a.treatment) < NameRank(b.treatment)

RECURSIVE SortGroupKeys(_)
SortGroupKeys(S) ==
    IF S = {} THEN <<>>
    ELSE LET least == CHOOSE k \in S : \A e \in S : ~GroupKeyLess(e, k)
         IN  <<least>> \o SortGroupKeys(S \ {least})

\* visualization 4: df.groupby(['year', 'month', 'treatment'])['ST_Value']
\* .mean().reset_index(), with the column 'date' added
st_monthly_data(d) ==
    LET keys == SortGroupKeys({[year |-> d[n].parsed_date.year, month |-> d[n].parsed_date.month,
                                treatment |-> d[n].treatment] : n \in 1..Len(d)})
        Mean(key) ==
            LET InGroup(r) == /\ r.parsed_date.year = key.year
                              /\ r.parsed_date.month = key.month
                              /\ r.treatment = key.treatment
            IN  mean(Column(SelectSeq(d, InGroup), "ST_Value"))
    IN  [n \in 1..Len(keys) |->
            [year |-> keys[n].year, month |-> keys[n].month, treatment |-> keys[n].treatment,
             ST_Value |-> Mean(keys[n]),
             date |-> [year |-> keys[n].year, month |-> keys[n].month, day |-> MidMonth]]]

Reorderings(n) == {f \in [1..n -> 1..n] : \A a, b \in 1..n : f[a] = f[b] => a = b}

Reorder(d, f) == [k \in 1..Len(d) |-> d[f[k]]]

\* monthly_data.sort_values('date'): the default sort is not stable, so rows
\* of one date may come out in any order
sort_values_by_date(rows) ==
    {q \in {Reorder(rows, f) : f \in Reorderings(Len(rows))} :
        \A n \in 1..(Len(q) - 1) : ~DateLess(q[n + 1].date, q[n].date)}

\* visualization 4: the treatment traces create_st_timeline_by_treatment adds
st_traces(sorted) ==
    LET present == treatments_with_rows(sorted)
        Trace(t) == LET OfTreatment(r) == r.treatment = t
                        trt_data == SelectSeq(sorted, OfTreatment)
                    IN  [name |-> t, x |-> Column(trt_data, "date"), y |-> Column(trt_data, "ST_Value")]
    IN  [n \in 1..Len(present) |-> Trace(present[n])]

\* the column is added to df itself: df_copy = df
df_after_get_monthly_averages_NoCopy(d) == with_normalized_date(d)

\* the caller's table once get_monthly_averages(df) has returned: line 55
\* copies df and lines 56-63 work on the copy
df_after_get_monthly_averages(d) == d

\* the caller's table once create_lnc_classification_chart(df) has returned:
\* line 217 copies the rows of each treatment and line 219 adds the column
\* to that copy
df_after_lnc_chart(d) == d

InitReport ==
    /\ csv \in Tables
    /\ df = <<>>
    /\ report = "none"
    /\ sample_ratio = <<>>
    /\ monthly_avg = <<>>
    /\ monthly_data = <<>>
    /\ traces = <<>>
    /\ ClassifyIdle
    /\ LookupIdle
    /\ PeakIdle
    /\ NormalizeIdle
    /\ ConfigIdle
    /\ ParallelIdle
    /\ ChartIdle

\* visualization 3, load_npk_data: the column N_ST_Ratio is added
LoadNpkData ==
    /\ report = "none"
    /\ report' = "load_npk_data"
    /\ df' = csv
    /\ sample_ratio' = [n \in 1..Len(csv) |-> row_ratio(csv[n])]
    /\ UNCHANGED <<csv, monthly_avg, monthly_data, traces>>
    /\ UNCHANGED <<classifyVars, lookupVars, peakVars, normVars, configVars, parallelVars, chartVars>>

\* visualization 6: df = load_npk_data(); monthly_avg = get_monthly_averages(df)
GetMonthlyAverages ==
    /\ report = "none"
    /\ report' = "get_monthly_averages"
    /\ df' = df_after_get_monthly_averages(load_nst(csv))
    /\ monthly_avg' = get_monthly_averages(load_nst(csv))
    /\ UNCHANGED <<csv, sample_ratio, monthly_data, traces>>
    /\ UNCHANGED <<classifyVars, lookupVars, peakVars, normVars, configVars, parallelVars, chartVars>>

\* visualization 5: df = load_npk_data(); the loop over TREATMENT_ORDER of
\* create_lnc_classification_chart
CreateLncClassificationChart ==
    /\ report = "none"
    /\ report' = "create_lnc_classification_chart"
    /\ df' = df_after_lnc_chart(load_lnc(csv))
    /\ traces' = lnc_traces(load_lnc(csv))
    /\ UNCHANGED <<csv, sample_ratio, monthly_avg, monthly_data>>
    /\ UNCHANGED <<classifyVars, lookupVars, peakVars, normVars, configVars, parallelVars, chartVars>>

\* visualization 4: df = load_npk_data(); create_st_timeline_by_treatment(df)
CreateStTimelineByTreatment ==
    /\ report = "none"
    /\ report' = "create_st_timeline_by_treatment"
    /\ df' = csv
    /\ \E sorted \in sort_values_by_date(st_monthly_data(csv)) :
          /\ monthly_data' = sorted
          /\ traces' = st_traces(sorted)
    /\ UNCHANGED <<csv, sample_ratio, monthly_avg>>
    /\ UNCHANGED <<classifyVars, lookupVars, peakVars, normVars, configVars, parallelVars, chartVars>>

NextReport ==
    \/ LoadNpkData
    \/ GetMonthlyAverages
    \/ CreateLncClassificationChart
    \/ CreateStTimelineByTreatment

SpecReport == InitReport /\ [][NextReport]_vars

----------------------------------------------------------------------------
(* Visualization 6: normalize(series) *)

NegInfF == [num |-> -1, den |-> 0]

\* x == y on floats: NaN equals nothing
FEq(x, y) == x # NaNF /\ y # NaNF /\ x = y

\* x - y on floats
FSub(x, y) ==
    IF x = NaNF \/ y = NaNF THEN NaNF
    ELSE IF x = InfF THEN (IF y = InfF THEN NaNF ELSE InfF)
    ELSE IF y = InfF THEN NegInfF
    ELSE Frac(x.num * y.den - y.num * x.den, x.den * y.den)

\* x * c on floats, c a non-negative integer
FMulInt(x, c) ==
    IF x = NaNF THEN NaNF
    ELSE IF x = InfF THEN (IF c = 0 THEN NaNF ELSE InfF)
    ELSE Frac(x.num * c, x.den)

\* x + c on floats, c an integer
FAddInt(x, c) ==
    IF x = NaNF THEN NaNF
    ELSE IF x = InfF THEN InfF
    ELSE Frac(x.num + c * x.den, x.den)

IsNumber(x) == x # NaNF

\* Series.max(): NaN entries are skipped; NaN when none is left
series_max(q) ==
    LET present == SelectSeq(q, IsNumber)
    IN  IF present = <<>> THEN NaNF
        ELSE present[CHOOSE n \in 1..Len(present) : \A m \in 1..Len(present) : ~FGt(present[m], present[n])]

\* Series.min()
series_min(q) ==
    LET present == SelectSeq(q, IsNumber)
    IN  IF present = <<>> THEN NaNF
        ELSE present[CHOOSE n \in 1..Len(present) : \A m \in 1..Len(present) : ~FGt(present[n], present[m])]

\* the constant case is not singled out
normalize_NoMidpoint(q) ==
    [returned |-> "scaled",
     value |-> [n \in 1..Len(q) |->
                  FMulInt(FDiv(FSub(q[n], series_min(q)), FSub(series_max(q), series_min(q))), 100)]]

\* the offset from the minimum is divided by the maximum, not by the range
normalize_ByMax(q) ==
    IF FEq(series_max(q), series_min(q))
    THEN [returned |-> "constant",
          value |-> [n \in 1..Len(q) |-> FAddInt(FMulInt(q[n], 0), 50)]]
    ELSE [returned |-> "scaled",
          value |-> [n \in 1..Len(q) |->
                       FMulInt(FDiv(FSub(q[n], series_min(q)), series_max(q)), 100)]]

\* the scale is turned over: the largest value becomes 0
normalize_Reflected(q) ==
    IF FEq(series_max(q), series_min(q))
    THEN [returned |-> "constant",
          value |-> [n \in 1..Len(q) |-> FAddInt(FMulInt(q[n], 0), 50)]]
    ELSE [returned |-> "scaled",
          value |-> [n \in 1..Len(q) |->
                       FMulInt(FDiv(FSub(series_max(q), q[n]), FSub(series_max(q), series_min(q))), 100)]]

\* normalize: which return statement ran ("constant": line 70, before any
\* division; "scaled": line 72) and the series returned
normalize(q) ==
    IF FEq(series_max(q), series_min(q))
    THEN [returned |-> "constant",
          value |-> [n \in 1..Len(q) |-> FAddInt(FMulInt(q[n], 0), 50)]]
    ELSE [returned |-> "scaled",
          value |-> [n \in 1..Len(q) |->
                       FMulInt(FDiv(FSub(q[n], series_min(q)), FSub(series_max(q), series_min(q))), 100)]]

\* the values a column of monthly_avg may hold: numbers, a missing mean, and
\* the infinite ratio of a month whose starch mean is 0
FloatSamples == {Frac(v, 1) : v \in 0..MaxVal} \cup {Frac(1, 2), NaNF, InfF}

InitNormalize ==
    /\ series \in SeqsUpTo(FloatSamples, MaxLen)
    /\ normalized = <<>>
    /\ npc = "ready"
    /\ ClassifyIdle
    /\ LookupIdle
    /\ PeakIdle
    /\ ReportIdle
    /\ ConfigIdle
    /\ ParallelIdle
    /\ ChartIdle

Normalize ==
    /\ npc = "ready"
    /\ npc' = normalize(series).returned
    /\ normalized' = normalize(series).value
    /\ UNCHANGED series
    /\ UNCHANGED <<classifyVars, lookupVars, peakVars, reportVars, configVars, parallelVars, chartVars>>

NextNormalize == Normalize

SpecNormalize == InitNormalize /\ [][NextNormalize]_vars

\* the series passed to normalize once it has returned: lines 70-72 build
\* new series and assign to nothing
series_after_normalize(q) == q

\* visualization 6, create_normalized_chart: the table of monthly means and
\* the normalized ratio column (N_Value and ST_Value are normalized alike)
CreateNormalizedChart ==
    /\ report = "none"
    /\ report' = "create_normalized_chart"
    /\ df' = df_after_get_monthly_averages(load_nst(csv))
    /\ monthly_avg' = get_monthly_averages(load_nst(csv))
    /\ LET column == Column(get_monthly_averages(load_nst(csv)), "N_ST_Ratio")
       IN  /\ series' = series_after_normalize(column)
           /\ normalized' = normalize(column).value
           /\ npc' = normalize(column).returned
    /\ UNCHANGED <<csv, sample_ratio, monthly_data, traces>>
    /\ UNCHANGED <<classifyVars, lookupVars, peakVars, configVars, parallelVars, chartVars>>

NextFrame == GetMonthlyAverages \/ CreateLncClassificationChart \/ CreateNormalizedChart

\* the reports whose effect on their inputs is looked at
SpecFrame == InitReport /\ [][NextFrame]_vars

----------------------------------------------------------------------------
(* shared/config.py as a deployment may have edited it: the two tables are *)
(* module-level dicts that get_threshold_for_date and                      *)
(* get_monthly_thresholds read on every call.  The repository's own tables *)
(* are complete and strictly increasing; the other tables tried are the    *)
(* misconfigurations the error taxonomy names.                             *)

\* LNC_MONTHLY_FACTORS with the entry of month m deleted
FactorsWithout(m) == [k \in Months \ {m} |-> LNC_MONTHLY_FACTORS[k]]

FactorTables == {LNC_MONTHLY_FACTORS, FactorsWithout(1), FactorsWithout(AnchorMonth)}

\* LNC_OCT_THRESHOLDS with two neighbours equal, and with two neighbours
\* exchanged
ReferenceTables ==
    {LNC_OCT_THRESHOLDS,
     [LNC_OCT_THRESHOLDS EXCEPT !["optimum_high"] = LNC_OCT_THRESHOLDS["low_optimum"]],
     [LNC_OCT_THRESHOLDS EXCEPT !["low_optimum"] = LNC_OCT_THRESHOLDS["optimum_high"],
                                !["optimum_high"] = LNC_OCT_THRESHOLDS["low_optimum"]]}

KeyError == [outcome |-> "KeyError"]

Returned(v) == [outcome |-> "returned", value |-> v]

\* the factor is read with a default: factors.get(month, 1.0)
call_get_threshold_for_date_DefaultFactor(oct, factors, d, threshold_key) ==
    LET month == d.month
    IN  IF month \notin DOMAIN factors
        THEN Returned(oct[threshold_key] * FactorUnit)
        ELSE Returned(oct[threshold_key] * factors[month])

\* get_threshold_for_date(date, threshold_key) on the tables oct, factors:
\* factors[month] raises KeyError when the month is not a key
call_get_threshold_for_date(oct, factors, d, threshold_key) ==
    LET month == d.month
    IN  IF month \notin DOMAIN factors
        THEN KeyError
        ELSE Returned(oct[threshold_key] * factors[month])

\* get_monthly_thresholds() on the tables oct, factors: the loop raises at
\* the first month that is not a key, otherwise a new dict is returned
call_get_monthly_thresholds(oct, factors) ==
    IF \E month \in Months : month \notin DOMAIN factors
    THEN KeyError
    ELSE Returned([month \in Months |-> [k \in KeySet |-> oct[k] * factors[month]]])

\* the threshold is scaled in place: LNC_OCT_THRESHOLDS[key] *= factor
oct_after_lookup_ScaledInPlace(oct, factors, d, threshold_key) ==
    IF d.month \notin DOMAIN factors THEN oct
    ELSE [oct EXCEPT ![threshold_key] = (oct[threshold_key] * factors[d.month]) \div FactorUnit]

\* LNC_OCT_THRESHOLDS once get_threshold_for_date has run: lines 230-232
\* read the two tables and assign to neither
oct_after_lookup(oct, factors, d, threshold_key) == oct

\* the entries the caller overwrites in the dict it holds
CallerEdits == {<<AnchorMonth, "deficient_low">>, <<1, "high_excess">>}

\* the dates looked up: one of every month
LookupDates == [year : {FirstYear}, month : Months, day : {1}]

InitConfig ==
    /\ oct_thresholds \in ReferenceTables
    /\ monthly_factors \in FactorTables
    /\ lookup = <<>>
    /\ thresholds = <<>>
    /\ ClassifyIdle
    /\ LookupIdle
    /\ PeakIdle
    /\ ReportIdle
    /\ NormalizeIdle
    /\ ParallelIdle
    /\ ChartIdle

\* a caller looks a threshold up
GetThresholdForDate ==
    /\ \E d \in LookupDates, k \in KeySet :
          /\ lookup' = [date |-> d, threshold_key |-> k,
                        result |-> call_get_threshold_for_date(oct_thresholds, monthly_factors, d, k)]
          /\ oct_thresholds' = oct_after_lookup(oct_thresholds, monthly_factors, d, k)
    /\ UNCHANGED <<monthly_factors, thresholds>>
    /\ UNCHANGED <<classifyVars, lookupVars, peakVars, reportVars, normVars, parallelVars, chartVars>>

\* a caller asks for the monthly table
CallGetMonthlyThresholds ==
    /\ thresholds' = call_get_monthly_thresholds(oct_thresholds, monthly_factors)
    /\ UNCHANGED <<oct_thresholds, monthly_factors, lookup>>
    /\ UNCHANGED <<classifyVars, lookupVars, peakVars, reportVars, normVars, parallelVars, chartVars>>

\* the caller overwrites an entry of the dict it was given
CallerModifiesReturned ==
    /\ thresholds # <<>>
    /\ thresholds.outcome = "returned"
    /\ \E e \in CallerEdits :
          thresholds' = [thresholds EXCEPT !.value[e[1]][e[2]] = 0]
    /\ UNCHANGED <<oct_thresholds, monthly_factors, lookup>>
    /\ UNCHANGED <<classifyVars, lookupVars, peakVars, reportVars, normVars, parallelVars, chartVars>>

NextConfig == GetThresholdForDate \/ CallGetMonthlyThresholds \/ CallerModifiesReturned

SpecConfig == InitConfig /\ [][NextConfig]_vars

----------------------------------------------------------------------------
(* Two callers computing reports over one loaded table: visualization 3's  *)
(* create_timeline_chart, which assigns the column 'year_month' into the   *)
(* table it is given, and get_monthly_averages, which works on a copy.     *)
(* The assignment of a column is not one step for another thread; what a   *)
(* read of the table gives while an assignment is under way is not defined *)
(* (pandas objects are not safe for concurrent modification): it may see   *)
(* the table and return, or raise.                                         *)

Callers == {"A", "B"}

Other(c) == IF c = "A" THEN "B" ELSE "A"

Raised == [outcome |-> "raised"]

\* the rows tried here: every treatment and date, one pair of values
ParallelRows == {r \in SampleRows : r.N_Value = 2 /\ r.ST_Value = 50}

\* df['parsed_date'].dt.to_period('M')
to_period_M(d) == [year |-> d.year, month |-> d.month]

\* df['year_month'] = df['parsed_date'].dt.to_period('M')
with_year_month(rows) ==
    [n \in 1..Len(rows) |->
        [f \in DOMAIN rows[n] \cup {"year_month"} |->
            IF f = "year_month" THEN to_period_M(rows[n].parsed_date) ELSE rows[n][f]]]

\* df.groupby(['year_month', 'treatment']).size().reset_index(name='count')
timeline_data(rows) ==
    LET keys == SortGroupKeys({[year |-> rows[n].year_month.year, month |-> rows[n].year_month.month,
                                treatment |-> rows[n].treatment] : n \in 1..Len(rows)})
        Count(key) == Cardinality({n \in 1..Len(rows) :
                          /\ rows[n].year_month = [year |-> key.year, month |-> key.month]
                          /\ rows[n].treatment = key.treatment})
    IN  [n \in 1..Len(keys) |->
            [year_month |-> [year |-> keys[n].year, month |-> keys[n].month],
             treatment |-> keys[n].treatment, count |-> Count(keys[n])]]

\* what a read of the shared table by caller c may give
ReadOutcomes(c, value) ==
    IF Other(c) \in writing THEN {Returned(value), Raised} ELSE {Returned(value)}

InitParallel ==
    /\ csv \in SeqsUpTo(ParallelRows, MaxRows)
    /\ df = csv
    /\ caller_pc \in [Callers -> {[report |-> "create_timeline_chart", at |-> "assign"],
                                 [report |-> "get_monthly_averages", at |-> "copy"]}]
    /\ caller_out = [c \in Callers |-> <<>>]
    /\ writing = {}
    /\ report = "parallel"
    /\ sample_ratio = <<>>
    /\ monthly_avg = <<>>
    /\ monthly_data = <<>>
    /\ traces = <<>>
    /\ ClassifyIdle
    /\ LookupIdle
    /\ PeakIdle
    /\ NormalizeIdle
    /\ ConfigIdle
    /\ ChartIdle

\* create_timeline_chart, line 98: the assignment into df starts
TimelineAssignBegin(c) ==
    /\ caller_pc[c].at = "assign"
    /\ caller_pc' = [caller_pc EXCEPT ![c].at = "assigning"]
    /\ writing' = writing \cup {c}
    /\ UNCHANGED <<csv, df, report, sample_ratio, monthly_avg, monthly_data, traces, caller_out>>
    /\ UNCHANGED <<classifyVars, lookupVars, peakVars, normVars, configVars, chartVars>>

\* line 98: the column is in df
TimelineAssignEnd(c) ==
    /\ caller_pc[c].at = "assigning"
    /\ df' = with_year_month(df)
    /\ caller_pc' = [caller_pc EXCEPT ![c].at = "groupby"]
    /\ writing' = writing \ {c}
    /\ UNCHANGED <<csv, report, sample_ratio, monthly_avg, monthly_data, traces, caller_out>>
    /\ UNCHANGED <<classifyVars, lookupVars, peakVars, normVars, configVars, chartVars>>

\* lines 99-100: the samples are counted by month and treatment
TimelineGroupby(c) ==
    /\ caller_pc[c].at = "groupby"
    /\ \E r \in ReadOutcomes(c, timeline_data(df)) :
          caller_out' = [caller_out EXCEPT ![c] = r]
    /\ caller_pc' = [caller_pc EXCEPT ![c].at = "done"]
    /\ UNCHANGED <<csv, df, report, sample_ratio, monthly_avg, monthly_data, traces, writing>>
    /\ UNCHANGED <<classifyVars, lookupVars, peakVars, normVars, configVars, chartVars>>

\* get_monthly_averages(df): df is copied and the copy aggregated
AveragesRun(c) ==
    /\ caller_pc[c].at = "copy"
    /\ \E r \in ReadOutcomes(c, get_monthly_averages(df_after_get_monthly_averages(df))) :
          caller_out' = [caller_out EXCEPT ![c] = r]
    /\ caller_pc' = [caller_pc EXCEPT ![c].at = "done"]
    /\ UNCHANGED <<csv, df, report, sample_ratio, monthly_avg, monthly_data, traces, writing>>
    /\ UNCHANGED <<classifyVars, lookupVars, peakVars, normVars, configVars, chartVars>>

NextParallel ==
    \E c \in Callers :
        \/ TimelineAssignBegin(c)
        \/ TimelineAssignEnd(c)
        \/ TimelineGroupby(c)
        \/ AveragesRun(c)

SpecParallel == InitParallel /\ [][NextParallel]_vars

----------------------------------------------------------------------------
(* Visualization 6: the peak loops of the three charts, on the float       *)
(* columns of monthly_avg.                                                 *)

\* values[j] > values[j-1] and values[j] > values[j+1], j counted from 0
is_peak(values, j) ==
    /\ FGt(values[j + 1], values[j])
    /\ FGt(values[j + 1], values[j + 2])

\* for i in range(1, len(values) - 1): if <peak at i>: the values of i kept,
\* in the order of the loop
peak_positions(values) ==
    LET InLoop(j) == /\ PeakRange(Len(values)).start <= j
                     /\ j < PeakRange(Len(values)).stop
                     /\ is_peak(values, j)
    IN  SelectSeq([n \in 1..Len(values) |-> n - 1], InLoop)

\* the marker of a peak takes the timestamp of the entry before it
marker_dates_Previous(dates, values) ==
    [k \in 1..Len(peak_positions(values)) |-> dates[peak_positions(values)[k]]]

\* peak_dates.append(dates[i])
marker_dates(dates, values) ==
    [k \in 1..Len(peak_positions(values)) |-> dates[peak_positions(values)[k] + 1]]

\* peak_values.append(ratio_values[i])
marker_values(values) ==
    [k \in 1..Len(peak_positions(values)) |-> values[peak_positions(values)[k] + 1]]

InitPeakCharts ==
    /\ series \in SeqsUpTo(FloatSamples, MaxLen)
    /\ normalized = <<>>
    /\ npc = "ready"
    /\ charts = {}
    /\ raw_peaks = <<>>
    /\ norm_peaks = <<>>
    /\ ClassifyIdle
    /\ LookupIdle
    /\ PeakIdle
    /\ ReportIdle
    /\ ConfigIdle
    /\ ParallelIdle

\* create_triple_axis_chart, lines 342-346: the loop on the ratio column
CreateTripleAxisChart ==
    /\ "triple_axis" \notin charts
    /\ charts' = charts \cup {"triple_axis"}
    /\ raw_peaks' = peak_positions(series)
    /\ UNCHANGED <<series, normalized, npc, norm_peaks>>
    /\ UNCHANGED <<classifyVars, lookupVars, peakVars, reportVars, configVars, parallelVars>>

\* create_peak_annotated_chart, lines 413 and 471-477: the ratio column is
\* normalized and the loop runs on Ratio_norm
CreatePeakAnnotatedChart ==
    /\ "peak_annotated" \notin charts
    /\ charts' = charts \cup {"peak_annotated"}
    /\ normalized' = normalize(series).value
    /\ npc' = normalize(series).returned
    /\ norm_peaks' = peak_positions(normalize(series).value)
    /\ UNCHANGED <<series, raw_peaks>>
    /\ UNCHANGED <<classifyVars, lookupVars, peakVars, reportVars, configVars, parallelVars>>

NextPeakCharts == CreateTripleAxisChart \/ CreatePeakAnnotatedChart

SpecPeakCharts == InitPeakCharts /\ [][NextPeakCharts]_vars

\* sampling days inside visualization 6's window, in the order of the file:
\* not sorted, two in one month, and months between them without a sample
GapDateOrder ==
    <<[year |-> 2024, month |-> 1, day |-> 5], [year |-> 2023, month |-> 10, day |-> 5],
      [year |-> 2024, month |-> 4, day |-> 5], [year |-> 2023, month |-> 11, day |-> 7],
      [year |-> 2023, month |-> 10, day |-> 20], [year |-> 2024, month |-> 3, day |-> 5]>>

\* N_Value of a row (ST_Value is 50 in each); 0 stands for "no row of that day"
GapValues == 0..(MaxVal + 1)

GapTable(f) ==
    LET Rows[k \in 0..Len(GapDateOrder)] ==
            IF k = 0 THEN <<>>
            ELSE IF f[k] = 0 THEN Rows[k - 1]
            ELSE Append(Rows[k - 1], [treatment |-> "N40", parsed_date |-> GapDateOrder[k],
                                      N_Value |-> f[k], ST_Value |-> 50])
    IN  Rows[Len(GapDateOrder)]

GapTables == {GapTable(f) : f \in [1..Len(GapDateOrder) -> GapValues]}

InitGaps ==
    /\ csv \in GapTables
    /\ df = <<>>
    /\ report = "none"
    /\ sample_ratio = <<>>
    /\ monthly_avg = <<>>
    /\ monthly_data = <<>>
    /\ traces = <<>>
    /\ ClassifyIdle
    /\ LookupIdle
    /\ PeakIdle
    /\ NormalizeIdle
    /\ ConfigIdle
    /\ ParallelIdle
    /\ ChartIdle

\* df = load_npk_data(); create_ratio_focused_chart(df), lines 525 and
\* 544-553: the markers of the peaks
CreateRatioFocusedChart ==
    /\ report = "none"
    /\ report' = "create_ratio_focused_chart"
    /\ df' = df_after_get_monthly_averages(load_nst(csv))
    /\ monthly_avg' = get_monthly_averages(load_nst(csv))
    /\ LET values == Column(get_monthly_averages(load_nst(csv)), "N_ST_Ratio")
           dates == Column(get_monthly_averages(load_nst(csv)), "normalized_date")
       IN  /\ ratio_values' = values
           /\ peak_dates' = marker_dates(dates, values)
           /\ peak_values' = marker_values(values)
    /\ UNCHANGED <<csv, sample_ratio, monthly_data, traces, i, ppc>>
    /\ UNCHANGED <<classifyVars, lookupVars, normVars, configVars, parallelVars, chartVars>>

NextGaps == CreateRatioFocusedChart

SpecGaps == InitGaps /\ [][NextGaps]_vars

----------------------------------------------------------------------------
(* Properties *)

StrictlyIncreasing(t) ==
    /\ t["deficient_low"] < t["low_optimum"]
    /\ t["low_optimum"] < t["optimum_high"]
    /\ t["optimum_high"] < t["high_excess"]

\* the condition of each band as the boundary policy words it
InBand(L, v, t) ==
    CASE L = "Deficient" -> v < t["deficient_low"]
      [] L = "Low"       -> t["deficient_low"] <= v /\ v < t["low_optimum"]
      [] L = "Optimum"   -> t["low_optimum"] <= v /\ v < t["optimum_high"]
      [] L = "High"      -> t["optimum_high"] <= v /\ v < t["high_excess"]
      [] L = "Excess"    -> v >= t["high_excess"]

C3_ThresholdsIncrease ==
    /\ \A m \in Months : LNC_MONTHLY_FACTORS[m] > 0
    /\ (monthly # <<>>) => \A m \in Months : StrictlyIncreasing(monthly[m])
    /\ (thrA # EmptyThr) => StrictlyIncreasing(thrA)
    /\ (thrB # EmptyThr) => StrictlyIncreasing(thrB)

C3_Witness ==
    /\ monthly # <<>>
    /\ thrA # EmptyThr
    /\ DOMAIN monthly = Months
    /\ \A m \in Months : monthly[m]["deficient_low"] < monthly[m]["high_excess"]

\* C4: a seasonal threshold is the reference value times the month's
\* factor; the lookup for a date of month m and the monthly table's entry m
\* hold that same value, and in October they hold the reference values.
C4_ReferenceTimesFactor ==
    /\ (thrA # EmptyThr) =>
          \A k \in KeySet :
              /\ thrA[k] = LNC_OCT_THRESHOLDS[k] * LNC_MONTHLY_FACTORS[dateA.month]
              /\ (dateA.month = AnchorMonth) => thrA[k] = LNC_OCT_THRESHOLDS[k] * FactorUnit
    /\ (monthly # <<>>) =>
          \A k \in KeySet :
              /\ \A m \in Months :
                    monthly[m][k] = LNC_OCT_THRESHOLDS[k] * LNC_MONTHLY_FACTORS[m]
              /\ monthly[AnchorMonth][k] = LNC_OCT_THRESHOLDS[k] * FactorUnit
    /\ (thrA # EmptyThr /\ monthly # <<>>) =>
          \A k \in KeySet : thrA[k] = monthly[dateA.month][k]

C4_Witness ==
    /\ thrA # EmptyThr
    /\ monthly # <<>>
    /\ dateA.month = AnchorMonth
    /\ \A k \in KeySet : thrA[k] = monthly[AnchorMonth][k]

DecemberThresholds ==
    [deficient_low |-> 297000, low_optimum |-> 324000,
     optimum_high |-> 364500, high_excess |-> 391500]

DecemberCase ==
    /\ cpc = "done"
    /\ date.month = 12
    /\ n_value = 350000
    /\ LNC_OCT_THRESHOLDS = [deficient_low |-> 264, low_optimum |-> 288,
                             optimum_high |-> 324, high_excess |-> 348]
    /\ LNC_MONTHLY_FACTORS[12] = 1125

\* C5 as stated: the December observation of 3.5 gets the thresholds
\* [2.97, 3.24, 3.645, 3.915] and is High.
C5_DecemberHigh ==
    DecemberCase => (thr = DecemberThresholds /\ label = "High")

\* C5: the December observation of 3.5 gets the thresholds
\* [2.97, 3.24, 3.645, 3.915]; it lies in [3.24, 3.645), between the second
\* and the third boundary, and is Optimum.
C5_DecemberOptimum ==
    DecemberCase =>
        /\ thr = DecemberThresholds
        /\ thr["low_optimum"] <= n_value /\ n_value < thr["optimum_high"]
        /\ label = "Optimum"

C5_Witness ==
    /\ DecemberCase
    /\ label = "Optimum"

\* C6: under the reference thresholds [2.64, 2.88, 3.24, 3.48] an April
\* observation (factor 0.993) of 2.7 lies in [b1, b2) and is Low, and an
\* August observation (factor 1.024) of 3.0 lies in [b2, b3) and is Optimum.
C6_AprilAugust ==
    (cpc = "done" /\ LNC_OCT_THRESHOLDS = [deficient_low |-> 264, low_optimum |-> 288,
                                          optimum_high |-> 324, high_excess |-> 348]) =>
        /\ (date.month = 4 /\ n_value = 270000) =>
              /\ LNC_MONTHLY_FACTORS[4] = 993
              /\ thr["deficient_low"] <= n_value /\ n_value < thr["low_optimum"]
              /\ label = "Low"
        /\ (date.month = 8 /\ n_value = 300000) =>
              /\ LNC_MONTHLY_FACTORS[8] = 1024
              /\ thr["low_optimum"] <= n_value /\ n_value < thr["optimum_high"]
              /\ label = "Optimum"

C6_Witness ==
    /\ cpc = "done"
    /\ date.month = 8
    /\ n_value = 300000
    /\ label = "Optimum"

\* C7: two lookups for dates of the same month return the same four
\* thresholds, whatever the years and the days of the two dates.
C7_MonthOnly ==
    (thrA # EmptyThr /\ thrB # EmptyThr /\ dateA.month = dateB.month) => thrA = thrB

C7_Witness ==
    /\ thrA # EmptyThr
    /\ thrB # EmptyThr
    /\ dateA.month = dateB.month
    /\ dateA.year # dateB.year
    /\ dateA.day # dateB.day
    /\ thrA = thrB

\* the positions of the strict interior local maxima of a series a
\* (positions counted from 0, a[j + 1] being the element at position j)
StrictInteriorMaxima(a) ==
    {j \in 0..(Len(a) - 1) :
        /\ 1 <= j
        /\ j <= Len(a) - 2
        /\ Gt(a[j + 1], a[j])
        /\ Gt(a[j + 1], a[j + 2])}

Reported == {peak_dates[n] : n \in 1..Len(peak_dates)}

C9_EndpointsNeverReported ==
    /\ 0 \notin Reported
    /\ (Len(ratio_values) - 1) \notin Reported
    /\ (ppc = "done" /\ ratio_values = <<9, 1, 2, 3>>) => peak_dates = <<>>

C9_Witness ==
    /\ ppc = "done"
    /\ ratio_values = <<9, 1, 2, 3>>
    /\ \A n \in 1..Len(ratio_values) : ratio_values[1] >= ratio_values[n]
    /\ 0 \notin Reported

\* C10: on a series of 0, 1 or 2 points the loop body never runs, nothing
\* is reported and no index error is raised.
C10_ShortSeriesEmpty ==
    (Len(ratio_values) <= 2) =>
        /\ ppc \in {"loop", "done"}
        /\ i = 1
        /\ peak_dates = <<>>
        /\ peak_values = <<>>

C10_Witness ==
    /\ ppc = "done"
    /\ Len(ratio_values) = 2
    /\ Gt(ratio_values[2], ratio_values[1])
    /\ peak_dates = <<>>

\* the positions whose value is less than both neighbours
StrictInteriorMinima(a) ==
    {j \in 0..(Len(a) - 1) :
        /\ 1 <= j
        /\ j <= Len(a) - 2
        /\ Gt(a[j], a[j + 1])
        /\ Gt(a[j + 2], a[j + 1])}

----------------------------------------------------------------------------
(* Monthly aggregation and the ratio series *)

YearMonth(d) == [year |-> d.year, month |-> d.month]

\* the calendar months in which a table has rows, whatever their treatment
MonthsOf(d) == {YearMonth(d[n].parsed_date) : n \in 1..Len(d)}

\* the (treatment, calendar month) pairs that occur in a table
PairsOf(d) ==
    {[treatment |-> d[n].treatment, ym |-> YearMonth(d[n].parsed_date)] : n \in 1..Len(d)}

BucketTimestamp(ym) == [year |-> ym.year, month |-> ym.month, day |-> MidMonth]

\* the cells of one column that are present, over the rows chosen by Keep
PresentCells(d, col, Keep(_)) ==
    LET Chosen(r) == Keep(r) /\ r[col] # NaN
    IN  Column(SelectSeq(d, Chosen), col)

\* the arithmetic mean over the present cells; NaNF when there is none
MeanOfPresent(d, col, Keep(_)) ==
    LET cells == PresentCells(d, col, Keep)
    IN  IF cells = <<>> THEN NaNF ELSE Frac(SumSeq(cells), Len(cells))

EntriesAt(ts) == {n \in 1..Len(monthly_avg) : monthly_avg[n].normalized_date = ts}

TimestampsAscending(q) ==
    \A n \in 1..(Len(q) - 1) : DateLess(q[n], q[n + 1])

\* C12 (as claimed): the ratio series has an entry for a monthly bucket only
\* if both of its means are present and its starch mean is > 0; a bucket with
\* starch mean 0 or a missing mean has no entry, and no entry is infinite or
\* undefined.
C12_OnlyDefinedRatios ==
    report = "get_monthly_averages" =>
        \A n \in 1..Len(monthly_avg) :
            /\ IsFinite(monthly_avg[n].N_Value)
            /\ IsFinite(monthly_avg[n].ST_Value)
            /\ monthly_avg[n].ST_Value.num > 0
            /\ IsFinite(monthly_avg[n].N_ST_Ratio)

\* C13: for every bucket with both means present and starch mean > 0 the
\* ratio series has exactly one entry, and its value is the bucket's mean
\* nitrogen divided by the bucket's mean starch (the ratio of the two means).
C13_RatioOfMeans ==
    report = "get_monthly_averages" =>
        \A ym \in MonthsOf(df) :
            LET InMonth(r) == YearMonth(r.parsed_date) = ym
                mN == MeanOfPresent(df, "N_Value", InMonth)
                mS == MeanOfPresent(df, "ST_Value", InMonth)
            IN  (IsFinite(mN) /\ IsFinite(mS) /\ mS.num > 0) =>
                    /\ Cardinality(EntriesAt(BucketTimestamp(ym))) = 1
                    /\ \A n \in EntriesAt(BucketTimestamp(ym)) :
                          monthly_avg[n].N_ST_Ratio = Frac(mN.num * mS.den, mN.den * mS.num)

\* two samples of one month whose own ratios (0.04, 0.02) differ: the entry
\* is 3/125, the ratio of the means, not 0.03
C13_Witness ==
    /\ report = "get_monthly_averages"
    /\ Len(df) = 2
    /\ YearMonth(df[1].parsed_date) = YearMonth(df[2].parsed_date)
    /\ df[1].N_Value = 2 /\ df[1].ST_Value = 50
    /\ df[2].N_Value = 4 /\ df[2].ST_Value = 200
    /\ Len(monthly_avg) = 1
    /\ monthly_avg[1].N_ST_Ratio = Frac(3, 125)

\* C14: a sample whose starch value is zero or missing gets the 'no value'
\* marker for its N/ST ratio, never a number (zero or infinite); a sample with
\* starch > 0 and nitrogen present gets nitrogen / starch.
C14_SampleRatioGuarded ==
    report = "load_npk_data" =>
        /\ Len(sample_ratio) = Len(df)
        /\ \A n \in 1..Len(df) :
              /\ (df[n].ST_Value = 0 \/ df[n].ST_Value = NaN) => sample_ratio[n] = NaNF
              /\ (df[n].ST_Value # NaN /\ df[n].ST_Value > 0 /\ df[n].N_Value # NaN) =>
                    sample_ratio[n] = Frac(df[n].N_Value, df[n].ST_Value)

C14_Witness ==
    /\ report = "load_npk_data"
    /\ \E n \in 1..Len(df) :
          df[n].ST_Value = 0 /\ df[n].N_Value # NaN /\ sample_ratio[n] = NaNF
    /\ \E n \in 1..Len(df) :
          df[n].ST_Value # NaN /\ df[n].ST_Value > 0 /\ IsFinite(sample_ratio[n])

TraceBuckets ==
    UNION {{[treatment |-> traces[n].name, ts |-> traces[n].x[k], mean |-> traces[n].y[k]] :
               k \in 1..Len(traces[n].x)} : n \in 1..Len(traces)}

TracePoints == UNION {{<<n, k>> : k \in 1..Len(traces[n].x)} : n \in 1..Len(traces)}

C19_MeanOverPresent ==
    /\ report = "get_monthly_averages" =>
          \A n \in 1..Len(monthly_avg) :
              LET InBucket(r) == normalized_date(r.parsed_date) = monthly_avg[n].normalized_date
              IN  /\ monthly_avg[n].N_Value = MeanOfPresent(df, "N_Value", InBucket)
                  /\ monthly_avg[n].ST_Value = MeanOfPresent(df, "ST_Value", InBucket)
                  /\ PresentCells(df, "N_Value", InBucket) = <<>> => monthly_avg[n].N_Value = NaNF
                  /\ PresentCells(df, "ST_Value", InBucket) = <<>> => monthly_avg[n].ST_Value = NaNF
    /\ report = "create_st_timeline_by_treatment" =>
          \A n \in 1..Len(monthly_data) :
              LET InBucket(r) == /\ r.treatment = monthly_data[n].treatment
                                 /\ r.parsed_date.year = monthly_data[n].year
                                 /\ r.parsed_date.month = monthly_data[n].month
              IN  /\ monthly_data[n].ST_Value = MeanOfPresent(df, "ST_Value", InBucket)
                  /\ PresentCells(df, "ST_Value", InBucket) = <<>> => monthly_data[n].ST_Value = NaNF

\* a bucket of two samples, one without starch: the nitrogen mean is over both
\* samples, the starch mean over the one that has it
C19_Witness ==
    /\ report = "get_monthly_averages"
    /\ Len(df) = 2
    /\ df[1].N_Value = 4 /\ df[1].ST_Value = NaN
    /\ df[2].N_Value = 2 /\ df[2].ST_Value = 50
    /\ Len(monthly_avg) = 1
    /\ monthly_avg[1].N_Value = Frac(3, 1)
    /\ monthly_avg[1].ST_Value = Frac(50, 1)

CanonicalRank(t) == CHOOSE n \in 1..Len(TREATMENT_ORDER) : TREATMENT_ORDER[n] = t

\* (timestamp, treatment) a before b: by timestamp, then by canonical order
BucketBefore(ats, atr, bts, btr) ==
    \/ DateLess(ats, bts)
    \/ ats = bts /\ CanonicalRank(atr) < CanonicalRank(btr)

\* a before b in the order the traces of the figure list their buckets
ListedBefore(a, b) == a[1] < b[1] \/ (a[1] = b[1] /\ a[2] < b[2])

TraceOrderCanonical ==
    /\ \A n \in 1..(Len(traces) - 1) : CanonicalRank(traces[n].name) < CanonicalRank(traces[n + 1].name)
    /\ \A n \in 1..Len(traces) : TimestampsAscending(traces[n].x)

\* C20 (as claimed): the buckets come out sorted ascending by timestamp, and
\* buckets of one timestamp in the canonical treatment order.
C20_TimestampThenCanonical ==
    /\ report = "create_lnc_classification_chart" =>
          \A a, b \in TracePoints :
              ListedBefore(a, b) =>
                  BucketBefore(traces[a[1]].x[a[2]], traces[a[1]].name,
                               traces[b[1]].x[b[2]], traces[b[1]].name)
    /\ report = "create_st_timeline_by_treatment" =>
          \A n \in 1..(Len(monthly_data) - 1) :
              BucketBefore(monthly_data[n].date, monthly_data[n].treatment,
                           monthly_data[n + 1].date, monthly_data[n + 1].treatment)

\* C20 (amended): the buckets are emitted one treatment after the other in the
\* canonical treatment order, each treatment's buckets ascending by timestamp;
\* visualization 4's table of buckets is ascending by timestamp; every
\* reordering of the input samples gives the same traces.
C20_TreatmentMajorOrder ==
    /\ report = "create_lnc_classification_chart" =>
          /\ TraceOrderCanonical
          /\ \A f \in Reorderings(Len(csv)) : lnc_traces(load_lnc(Reorder(csv, f))) = traces
    /\ report = "create_st_timeline_by_treatment" =>
          /\ TraceOrderCanonical
          /\ \A n \in 1..(Len(monthly_data) - 1) :
                ~DateLess(monthly_data[n + 1].date, monthly_data[n].date)
          /\ \A f \in Reorderings(Len(csv)) :
                \A q \in sort_values_by_date(st_monthly_data(Reorder(csv, f))) : st_traces(q) = traces

\* N100 sampled in the earlier month and listed first in the file, N40 in the
\* later month: the N40 bucket is emitted first
C20_Witness ==
    /\ report = "create_lnc_classification_chart"
    /\ Len(df) = 2
    /\ df[1].treatment = "N100" /\ df[2].treatment = "N40"
    /\ DateLess(df[1].parsed_date, df[2].parsed_date)
    /\ Len(traces) = 2
    /\ traces[1].name = "N40" /\ traces[2].name = "N100"
    /\ DateLess(traces[2].x[1], traces[1].x[1])

----------------------------------------------------------------------------
(* normalize *)

AllNumbers(q) == \A n \in 1..Len(q) : IsFinite(q[n])

\* a <= b on fractions
FracLeq(a, b) == a.num * b.den <= b.num * a.den

Lowest(q) == CHOOSE x \in {q[n] : n \in 1..Len(q)} : \A n \in 1..Len(q) : FracLeq(x, q[n])

Highest(q) == CHOOSE x \in {q[n] : n \in 1..Len(q)} : \A n \in 1..Len(q) : FracLeq(q[n], x)

\* (v - lo) / (hi - lo) * 100 on fractions, hi # lo
Rescaled(v, lo, hi) ==
    Frac(100 * (v.num * lo.den - lo.num * v.den) * hi.den,
         v.den * (hi.num * lo.den - lo.num * hi.den))

InRange0To100(x) == IsFinite(x) /\ 0 <= x.num /\ x.num <= 100 * x.den

\* C16: for every sequence of numbers whose maximum differs from its minimum,
\* normalize maps each v to (v - min)/(max - min) * 100, min and max taken
\* over the whole sequence; every output is in [0,100], the least output is 0
\* and the greatest is 100.
C16_NormalizeRescales ==
    (npc # "ready" /\ AllNumbers(series) /\ \E a, b \in 1..Len(series) : series[a] # series[b]) =>
        /\ npc = "scaled"
        /\ Len(normalized) = Len(series)
        /\ \A n \in 1..Len(series) :
              /\ normalized[n] = Rescaled(series[n], Lowest(series), Highest(series))
              /\ InRange0To100(normalized[n])
        /\ \E n \in 1..Len(series) : normalized[n] = Frac(0, 1)
        /\ \E n \in 1..Len(series) : normalized[n] = Frac(100, 1)

\* the series 1/2, 2, 0: the outputs are 25, 100, 0
C16_Witness ==
    /\ npc = "scaled"
    /\ series = <<Frac(1, 2), Frac(2, 1), Frac(0, 1)>>
    /\ normalized = <<Frac(25, 1), Frac(100, 1), Frac(0, 1)>>

\* C17: for every constant sequence of numbers of length >= 1 (a single
\* element included) normalize returns a sequence of the same length whose
\* every element is 50, and returns before it divides.
C17_ConstantGivesMidpoint ==
    (npc # "ready" /\ Len(series) >= 1 /\ AllNumbers(series)
        /\ \A a, b \in 1..Len(series) : series[a] = series[b]) =>
        /\ npc = "constant"
        /\ Len(normalized) = Len(series)
        /\ \A n \in 1..Len(series) : normalized[n] = Frac(50, 1)

C17_Witness ==
    /\ npc = "constant"
    /\ Len(series) = 1
    /\ IsFinite(series[1])
    /\ normalized = <<Frac(50, 1)>>

----------------------------------------------------------------------------
(* Invalid concentrations, and the order of the labels *)

IsMissing(v) == v = -1

IsNegative(v) == v < 0 /\ ~IsMissing(v)

\* C23 (as claimed): classifying a missing or NaN concentration fails with
\* InvalidValueError: the pass never completes on it, with or without a label.
C23_MissingFailsInvalidValue ==
    IsMissing(n_value) => (cpc # "done" /\ label = "")

\* C24 (as claimed): classifying a negative concentration fails with
\* InvalidValueError: the pass never completes on it, and it is not labelled
\* Deficient.
C24_NegativeFailsInvalidValue ==
    IsNegative(n_value) => (cpc # "done" /\ label # "Deficient")

LabelRank(l) ==
    CASE l = "Deficient" -> 1
      [] l = "Low" -> 2
      [] l = "Optimum" -> 3
      [] l = "High" -> 4
      [] l = "Excess" -> 5

\* C29: classification is monotone in the value: with the threshold set of
\* one date, a value v and any value w >= v, the label of v is not above the
\* label of w in the order Deficient < Low < Optimum < High < Excess.
C29_LabelsMonotone ==
    cpc = "done" =>
        \A w \in CandidateValues :
            /\ n_value <= w => LabelRank(label) <= LabelRank(classify(w, thr))
            /\ w <= n_value => LabelRank(classify(w, thr)) <= LabelRank(label)

\* an Optimum value with a larger value that is labelled High
C29_Witness ==
    /\ cpc = "done"
    /\ label = "Optimum"
    /\ \E w \in CandidateValues : n_value < w /\ classify(w, thr) = "High"

----------------------------------------------------------------------------
(* Misconfigured tables, and the tables across calls *)

LookedUp == lookup # <<>>

MonthMissing == LookedUp /\ lookup.date.month \notin DOMAIN monthly_factors

ReferenceIncreasing ==
    /\ oct_thresholds["deficient_low"] < oct_thresholds["low_optimum"]
    /\ oct_thresholds["low_optimum"] < oct_thresholds["optimum_high"]
    /\ oct_thresholds["optimum_high"] < oct_thresholds["high_excess"]

C22_NonIncreasingRejected ==
    ~ReferenceIncreasing =>
        /\ LookedUp => lookup.result.outcome # "returned"
        /\ thresholds # <<>> => thresholds.outcome # "returned"

\* the value a first call returns on the tables of the deployment
FirstCallValue(d, k) == oct_thresholds[k] * monthly_factors[d.month]

\* the step is the caller's overwriting of one entry of the table it holds
IsCallerEdit ==
    /\ thresholds # <<>>
    /\ thresholds.outcome = "returned"
    /\ \E e \in CallerEdits : thresholds' = [thresholds EXCEPT !.value[e[1]][e[2]] = 0]

\* what a first call of get_monthly_thresholds gives on the tables
FirstCallTable ==
    IF \E m \in Months : m \notin DOMAIN monthly_factors
    THEN [outcome |-> "KeyError"]
    ELSE Returned([m \in Months |-> [k \in KeySet |-> oct_thresholds[k] * monthly_factors[m]]])

\* C27: whatever lookups ran before and whatever the caller did to a table
\* it was given, the two configuration tables are unchanged, a lookup returns
\* what a first call returns, and a call for the monthly table gives what a
\* first call gives, each month with its own products.
C27_TablesUnchanged ==
    /\ [][oct_thresholds' = oct_thresholds /\ monthly_factors' = monthly_factors]_vars
    /\ []((LookedUp /\ ~MonthMissing) =>
             lookup.result = Returned(FirstCallValue(lookup.date, lookup.threshold_key)))
    /\ [][(thresholds' # thresholds /\ ~IsCallerEdit) => thresholds' = FirstCallTable]_vars

\* a lookup made after the caller has overwritten an entry of a returned table
C27_Witness ==
    /\ LookedUp
    /\ lookup.result.outcome = "returned"
    /\ thresholds # <<>>
    /\ thresholds.outcome = "returned"
    /\ thresholds.value[AnchorMonth]["deficient_low"] = 0
    /\ lookup.date.month = AnchorMonth
    /\ lookup.threshold_key = "deficient_low"
    /\ lookup.result.value = LNC_OCT_THRESHOLDS["deficient_low"] * FactorUnit

----------------------------------------------------------------------------
(* Inputs after the call *)

SampleColumns == {"treatment", "parsed_date", "N_Value", "ST_Value"}

\* C26: after normalize(series) the input series has the same length and the
\* same elements as before, and after monthly aggregation the sample table
\* passed in has the same rows and the same columns as before the call.
C26_InputsUnchanged ==
    /\ report \in {"get_monthly_averages", "create_normalized_chart"} =>
          /\ df = load_nst(csv)
          /\ \A n \in 1..Len(df) : DOMAIN df[n] = SampleColumns
    /\ report = "create_lnc_classification_chart" =>
          /\ df = load_lnc(csv)
          /\ \A n \in 1..Len(df) : DOMAIN df[n] = SampleColumns
    /\ report = "create_normalized_chart" =>
          /\ Len(series) = Len(monthly_avg)
          /\ \A n \in 1..Len(series) : series[n] = monthly_avg[n].N_ST_Ratio

\* two months aggregated and their ratios normalized to 0 and 100
C26_Witness ==
    /\ report = "create_normalized_chart"
    /\ Len(df) = 2
    /\ Len(monthly_avg) = 2
    /\ npc = "scaled"
    /\ series # normalized
    /\ \A n \in 1..Len(series) : IsFinite(series[n])

----------------------------------------------------------------------------
(* Reports of independent callers over one table *)

\* what the report a caller started as computes on the loaded table alone
AloneResult(c) ==
    IF caller_pc[c].report = "create_timeline_chart"
    THEN Returned(timeline_data(with_year_month(csv)))
    ELSE Returned(get_monthly_averages(csv))

\* C25 (as claimed): however the steps of two reports over one loaded table
\* interleave, no step changes the table both read, and each report that has
\* finished produced what it produces when run alone.
C25_ReportsIndependent ==
    /\ [][df' = df]_vars
    /\ [](\A c \in Callers :
             caller_pc[c].at = "done" => caller_out[c] = AloneResult(c))

----------------------------------------------------------------------------
(* Peaks of the raw and of the normalized ratio *)

AllFinite(q) == \A n \in 1..Len(q) : IsFinite(q[n])

BothCharts == charts = {"triple_axis", "peak_annotated"}

----------------------------------------------------------------------------
(* Peaks across months without samples *)

\* the entries of monthly_avg that exceed the entry before and the entry
\* after them in the series
PositionalPeaks ==
    {n \in 2..(Len(monthly_avg) - 1) :
        /\ FGt(monthly_avg[n].N_ST_Ratio, monthly_avg[n - 1].N_ST_Ratio)
        /\ FGt(monthly_avg[n].N_ST_Ratio, monthly_avg[n + 1].N_ST_Ratio)}

MonthsApart(a, b) == (b.year - a.year) * 12 + (b.month - a.month)

\* C30: the series has one entry per month that has samples and none for a
\* month without; an entry is a peak by comparison with the entries next to
\* it in the series, however many months lie between; every marker carries
\* the timestamp and the value of the entry it marks.
C30_PositionalNeighbours ==
    report = "create_ratio_focused_chart" =>
        /\ Len(monthly_avg) = Cardinality(MonthsOf(df))
        /\ \A n \in 1..Len(monthly_avg) : YearMonth(monthly_avg[n].normalized_date) \in MonthsOf(df)
        /\ \A n \in 1..(Len(monthly_avg) - 1) :
              DateLess(monthly_avg[n].normalized_date, monthly_avg[n + 1].normalized_date)
        /\ Len(peak_dates) = Cardinality(PositionalPeaks)
        /\ Len(peak_values) = Len(peak_dates)
        /\ \A n \in PositionalPeaks :
              \E k \in 1..Len(peak_dates) :
                  /\ peak_dates[k] = monthly_avg[n].normalized_date
                  /\ peak_values[k] = monthly_avg[n].N_ST_Ratio

C30_Witness ==
    /\ report = "create_ratio_focused_chart"
    /\ \E n \in PositionalPeaks :
          /\ MonthsApart(monthly_avg[n - 1].normalized_date, monthly_avg[n].normalized_date) > 1
          /\ MonthsApart(monthly_avg[n].normalized_date, monthly_avg[n + 1].normalized_date) = 1
          /\ peak_dates = <<monthly_avg[n].normalized_date>>

====
